---- MODULE Spec2Model ----
(***************************************************************************)
(* Model of src/service.ts: the Service constructor (descriptor builder),  *)
(* Service.merge (revision merger) and generateRevisionName.               *)
(*                                                                         *)
(* JavaScript values are tagged records: undefined, strings (sequences of  *)
(* one-character strings, so that length, split, substring and padStart    *)
(* are computed), plain objects (functions from keys to values) and arrays *)
(* (sequences of values).  Descriptors follow the Knative Service schema:  *)
(* at a given path both descriptors hold the same kind of value.           *)
(***************************************************************************)
EXTENDS Integers, Sequences, FiniteSets

(* ---------------------------------------------------------------- values *)

Undef == [t |-> "undef"]

Str(s) == [t |-> "str", v |-> s]

Obj(f) == [t |-> "obj", f |-> f]

Arr(e) == [t |-> "arr", e |-> e]

NoFields == [k \in {} |-> Undef]

IsStr(v) == v.t = "str"

IsObj(v) == v.t = "obj"

IsArr(v) == v.t = "arr"

\* JavaScript truthiness of the values above: undefined and '' are falsy,
\* every object and every array (the empty one included) is truthy.
Truthy(v) == IsObj(v) \/ IsArr(v) \/ (IsStr(v) /\ v.v # <<>>)

Max(a, b) == IF a >= b THEN a ELSE b

Min(a, b) == IF a <= b THEN a ELSE b

\* A path element is a property key or a (0-based) array index.
K(k) == [k |-> k]

I(i) == [i |-> i]

IsKey(h) == "k" \in DOMAIN h

\* lodash get(object, path): undefined as soon as a step is missing.
RECURSIVE Get(_, _)
Get(v, p) ==
  IF p = <<>> THEN v
  ELSE LET h == Head(p) IN
    IF IsKey(h)
    THEN IF IsObj(v) /\ h.k \in DOMAIN v.f THEN Get(v.f[h.k], Tail(p)) ELSE Undef
    ELSE IF IsArr(v) /\ (h.i + 1) \in DOMAIN v.e THEN Get(v.e[h.i + 1], Tail(p)) ELSE Undef

\* The assignment  v.p1.p2...pn = x  on a tree whose v.p1...p(n-1) exists.
RECURSIVE Put(_, _, _)
Put(v, p, x) ==
  IF p = <<>> THEN x
  ELSE LET h == Head(p) IN
    IF IsKey(h)
    THEN Obj([kk \in DOMAIN v.f \cup {h.k} |->
               IF kk = h.k
               THEN Put(IF h.k \in DOMAIN v.f THEN v.f[h.k] ELSE Undef, Tail(p), x)
               ELSE v.f[kk]])
    ELSE Arr([v.e EXCEPT ![h.i + 1] = Put(@, Tail(p), x)])

(* --------------------------------------------------------------- strings *)

Lower == {"a", "b", "c", "d", "e", "f", "g", "h", "i", "j", "k", "l", "m",
          "n", "o", "p", "q", "r", "s", "t", "u", "v", "w", "x", "y", "z"}

Digits == <<"0", "1", "2", "3", "4", "5", "6", "7", "8", "9">>

Digit == {Digits[i] : i \in 1..10}

DigitVal(c) == (CHOOSE i \in 1..10 : Digits[i] = c) - 1

Rep(c, n) == [i \in 1..n |-> c]

\* String.prototype.substring(0, n)
Substring0(s, n) == SubSeq(s, 1, Min(n, Len(s)))

\* String.prototype.includes(c) for a one-character c
Includes(s, c) == \E i \in 1..Len(s) : s[i] = c

\* String.prototype.split(c) for a one-character separator c: the pieces
\* between the separators, in order ('' splits into ['']).
RECURSIVE Split(_, _)
Split(s, c) ==
  IF ~Includes(s, c) THEN <<s>>
  ELSE LET i == CHOOSE j \in 1..Len(s) : s[j] = c /\ \A l \in 1..(j - 1) : s[l] # c
       IN <<SubSeq(s, 1, i - 1)>> \o Split(SubSeq(s, i + 1, Len(s)), c)

\* String.prototype.padStart(n, c): c repeated in front up to length n.
PadStart(s, n, c) == IF Len(s) >= n THEN s ELSE Rep(c, n - Len(s)) \o s

\* String.prototype.replace(/[^a-z]+/g, ''): the lowercase letters of s, in order.
OnlyLower(s) == SelectSeq(s, LAMBDA c : c \in Lower)

(* --------------------------------------------------------------- numbers *)

Num(n) == [t |-> "num", n |-> n]

NaN == [t |-> "nan"]

\* The longest prefix of s made of decimal digits.
RECURSIVE DigitPrefix(_)
DigitPrefix(s) ==
  IF s = <<>> \/ Head(s) \notin Digit THEN <<>>
  ELSE <<Head(s)>> \o DigitPrefix(Tail(s))

RECURSIVE DigitsValue(_)
DigitsValue(s) ==
  IF s = <<>> THEN 0
  ELSE 10 * DigitsValue(SubSeq(s, 1, Len(s) - 1)) + DigitVal(s[Len(s)])

\* parseInt(x) with no radix, for x undefined or a string without sign,
\* leading blank or 0x prefix: the value of the leading decimal digits, NaN
\* when there is none (parseInt(undefined) is NaN).
ParseInt(x) ==
  IF ~IsStr(x) \/ DigitPrefix(x.v) = <<>> THEN NaN
  ELSE Num(DigitsValue(DigitPrefix(x.v)))

\* x + 1 on a number: NaN + 1 is NaN.
PlusOne(x) == IF x = NaN THEN NaN ELSE Num(x.n + 1)

RECURSIVE NatToString(_)
NatToString(n) ==
  IF n < 10 THEN <<Digits[n + 1]>>
  ELSE NatToString(n \div 10) \o <<Digits[(n % 10) + 1]>>

\* Number.prototype.toString() of a non-negative integer or NaN.
NumToString(x) == IF x = NaN THEN <<"N", "a", "N">> ELSE NatToString(x.n)

(* ------------------------------------------------------ descriptor paths *)

MetadataPath == <<K("metadata")>>

ServiceNamePath == <<K("metadata"), K("name")>>

TemplateMetadataPath == <<K("spec"), K("template"), K("metadata")>>

RevisionNamePath == <<K("spec"), K("template"), K("metadata"), K("name")>>

TemplateSpecPath == <<K("spec"), K("template"), K("spec")>>

ContainersPath == <<K("spec"), K("template"), K("spec"), K("containers")>>

Container0Path == ContainersPath \o <<I(0)>>

EnvPath == Container0Path \o <<K("env")>>

EnvVar(n, v) == Obj([name |-> Str(n), value |-> Str(v)])

(* ---------------------------------------------------------- parseEnvVars *)

\* The tokens of envVarInput.split(',').
EnvTokens(s) == Split(s, ",")

\* No token makes parseEnvVars throw: each one includes '='.
EnvWellFormed(s) ==
  \A i \in 1..Len(EnvTokens(s)) : Includes(EnvTokens(s)[i], "=")

\* One token: keyValue = envVar.split('='); {name: keyValue[0], value: keyValue[1]}.
ParseEnvVar(tok) ==
  LET keyValue == Split(tok, "=") IN EnvVar(keyValue[1], keyValue[2])

\* parseEnvVars on a well-formed input: the array of parsed tokens, in order.
ParseEnvVars(s) ==
  Arr([i \in 1..Len(EnvTokens(s)) |-> ParseEnvVar(EnvTokens(s)[i])])

(* ----------------------------------------------------------- constructor *)

\* The request the constructor starts from when no YAML file is given.
Shell ==
  Obj([apiVersion |-> Str(<<"s", "e", "r", "v", "i", "n", "g", ".", "k", "n", "a", "t", "i", "v", "e", ".", "d", "e", "v", "/", "v", "1">>),
       kind |-> Str(<<"S", "e", "r", "v", "i", "c", "e">>),
       metadata |-> Obj(NoFields), spec |-> Obj(NoFields)])

\* "If name is provided, set or override".
WithName(request, name) ==
  IF ~Truthy(name) THEN request
  ELSE IF Truthy(Get(request, MetadataPath))
       THEN Put(request, ServiceNamePath, name)
       ELSE Put(request, MetadataPath, Obj([name |-> name]))

\* Mutant of WithImage: a container list the YAML file holds is kept.
WithImageKeepYaml(request, image) ==
  IF ~Truthy(image) \/ Truthy(Get(request, ContainersPath)) THEN request
  ELSE Put(request, <<K("spec")>>,
           Obj([template |-> Obj([spec |->
                  Obj([containers |-> Arr(<<Obj([image |-> image])>>)])])]))

\* "If image is provided, set or override YAML".
WithImage(request, image) ==
  IF ~Truthy(image) THEN request
  ELSE LET container == Obj([image |-> image]) IN
    IF Truthy(Get(request, TemplateSpecPath))
    THEN Put(request, ContainersPath, Arr(<<container>>))
    ELSE Put(request, <<K("spec")>>,
             Obj([template |-> Obj([spec |->
                    Obj([containers |-> Arr(<<container>>)])])]))

\* "If Env Vars are provided, set or override YAML".
WithEnv(request, envVars) ==
  IF Truthy(envVars) /\ Truthy(Get(request, Container0Path))
  THEN Put(request, EnvPath, envVars)
  ELSE request

\* new Service(opts).  opts.yaml stands for the tree YAML.parse returns for
\* the file at that path (undefined when no path is given).  The result is
\* the constructed object (request, name) or the error thrown.
ServiceConstructor(opts) ==
  LET envGiven == Truthy(opts.envVars)
      envVars  == IF envGiven THEN ParseEnvVars(opts.envVars.v) ELSE Undef
      r0 == IF Truthy(opts.yaml) THEN opts.yaml ELSE Shell
      r1 == WithName(r0, opts.name)
      r2 == WithImage(r1, opts.image)
      r3 == WithEnv(r2, envVars)
      failed(e) == [ok |-> FALSE, err |-> e, request |-> Undef, name |-> Undef]
  IN
    IF (~Truthy(opts.name) \/ ~Truthy(opts.image)) /\ ~Truthy(opts.yaml)
      THEN failed("Error: provide image and name or YAML")
    ELSE IF envGiven /\ ~EnvWellFormed(opts.envVars.v)
      THEN failed("TypeError: env vars format")
    ELSE IF ~Truthy(Get(r2, ContainersPath))
      THEN failed("Error: no container defined")
    ELSE IF ~IsObj(Get(r3, MetadataPath))
      THEN failed("TypeError: metadata undefined")
    ELSE [ok |-> TRUE, err |-> "", request |-> r3,
          name |-> Get(r3, ServiceNamePath)]

(* ---------------------------------------------------------- lodash merge *)

\* Mutant of MergeValue: the source's top-level value replaces the
\* destination's key by key, with no recursion (Object.assign for merge).
MergeValueShallow(objValue, srcValue) ==
  IF IsObj(srcValue) /\ IsObj(objValue)
  THEN Obj([k \in DOMAIN objValue.f \cup DOMAIN srcValue.f |->
              IF k \in DOMAIN srcValue.f THEN srcValue.f[k] ELSE objValue.f[k]])
  ELSE IF srcValue = Undef THEN objValue
  ELSE srcValue

\* Mutant of MergeValue: objects merge recursively, but an array of the
\* source replaces the destination's array as a whole.
RECURSIVE MergeValueReplaceArrays(_, _)
MergeValueReplaceArrays(objValue, srcValue) ==
  IF IsObj(srcValue) THEN
    LET o == IF IsObj(objValue) THEN objValue.f ELSE NoFields
        s == srcValue.f
    IN Obj([k \in DOMAIN o \cup DOMAIN s |->
              IF k \in DOMAIN s
              THEN MergeValueReplaceArrays(IF k \in DOMAIN o THEN o[k] ELSE Undef, s[k])
              ELSE o[k]])
  ELSE IF srcValue = Undef THEN objValue
  ELSE srcValue

\* merge(object, source) of lodash, as called on line 144, on one pair of
\* values: a plain object or an array of the source is merged recursively
\* into the destination's value (into a fresh {} or [] when the destination
\* holds no object or array there), key by key and index by index; any
\* other defined source value is assigned; an undefined source value is
\* skipped.  Keys and indices the source lacks keep the destination's value.
RECURSIVE MergeValue(_, _)
MergeValue(objValue, srcValue) ==
  IF IsObj(srcValue) THEN
    LET o == IF IsObj(objValue) THEN objValue.f ELSE NoFields
        s == srcValue.f
    IN Obj([k \in DOMAIN o \cup DOMAIN s |->
              IF k \in DOMAIN s
              THEN MergeValue(IF k \in DOMAIN o THEN o[k] ELSE Undef, s[k])
              ELSE o[k]])
  ELSE IF IsArr(srcValue) THEN
    LET o == IF IsArr(objValue) THEN objValue.e ELSE <<>>
        s == srcValue.e
    IN Arr([i \in 1..Max(Len(o), Len(s)) |->
              IF i <= Len(s)
              THEN MergeValue(IF i <= Len(o) THEN o[i] ELSE Undef, s[i])
              ELSE o[i]])
  ELSE IF srcValue = Undef THEN objValue
  ELSE srcValue

(* -------------------------------------------------- generateRevisionName *)

MaxNameLen == 63

ServiceNameLen == 53

PadLen == 4

NumLetters == 3

\* suffix[suffix.length - 2]: undefined when the array has fewer than 2 entries.
SecondToLast(suffix) ==
  IF Len(suffix) >= 2 THEN Str(suffix[Len(suffix) - 1]) ELSE Undef

\* "Increment suffix number if set".
NextNum(prevName) ==
  IF Truthy(prevName)
  THEN NumToString(PlusOne(ParseInt(SecondToLast(Split(prevName.v, "-")))))
  ELSE <<"1">>

\* "Generate 3 random letters" from random, the string
\* Math.random().toString(36).
RandomLetters(random) == Substring0(OnlyLower(random), NumLetters)

\* generateRevisionName(name, prevName) of a Service whose name field is
\* thisName, with Math.random().toString(36) = random: the name returned,
\* or the error thrown.
GenerateRevisionName(name, prevName, thisName, random) ==
  IF Truthy(name) /\ Len(name.v) > MaxNameLen
    THEN [ok |-> FALSE, err |-> "Error: resource name", name |-> Undef]
  ELSE IF Truthy(name)
    THEN [ok |-> TRUE, err |-> "", name |-> name]
  ELSE IF ~IsStr(thisName)
    THEN [ok |-> FALSE, err |-> "TypeError: this.name undefined", name |-> Undef]
  ELSE [ok |-> TRUE, err |-> "",
        name |-> Str(Substring0(thisName.v, ServiceNameLen) \o <<"-">>
                     \o PadStart(NextNum(prevName), PadLen, "0") \o <<"-">>
                     \o RandomLetters(random))]

(* ----------------------------------------------------------------- merge *)

\* envVar.name of each entry of an env array.
EnvNames(env) == [i \in 1..Len(env) |-> Get(env[i], <<K("name")>>)]

\* "Merge Env vars": the current entries, then the entries of prevEnvVars
\* whose name is not among the current names.
MergeEnv(currentEnvVars, prevEnvVars) ==
  LET env  == IF Truthy(currentEnvVars) THEN currentEnvVars.e ELSE <<>>
      keys == {EnvNames(env)[i] : i \in 1..Len(env)}
      old  == IF IsArr(prevEnvVars) THEN prevEnvVars.e ELSE <<>>
  IN Arr(env \o SelectSeq(old, LAMBDA envVar : Get(envVar, <<K("name")>>) \notin keys))

\* service.merge(prevService) on a Service with fields request and thisName.
\* lodash merge works in place, so mergedServices and prevService are one
\* object from line 144 on: prev is that object's value when the method
\* returns or throws, request the value of this.request.  errs holds the
\* errors the call can end with (which of two pending errors of line 147 is
\* raised depends on the engine's evaluation order).
ServiceMerge(request, thisName, prevService, random) ==
  LET name         == Get(request, RevisionNamePath)
      previousName == Get(prevService, RevisionNamePath)
      merged       == MergeValue(prevService, request)
      gen          == GenerateRevisionName(name, previousName, thisName, random)
      noMetadata   == ~IsObj(Get(merged, TemplateMetadataPath))
      named        == Put(merged, RevisionNamePath, gen.name)
      noContainer  == ~IsObj(Get(named, Container0Path))
                        \/ ~IsObj(Get(request, Container0Path))
      env          == MergeEnv(Get(request, EnvPath), Get(named, EnvPath))
      final        == Put(named, EnvPath, env)
  IN
    IF ~gen.ok \/ noMetadata
      THEN [ok |-> FALSE, prev |-> merged, request |-> request,
            errs |-> (IF gen.ok THEN {} ELSE {gen.err})
                       \cup (IF noMetadata THEN {"TypeError: metadata undefined"} ELSE {})]
    ELSE IF noContainer
      THEN [ok |-> FALSE, prev |-> named, request |-> request,
            errs |-> {"TypeError: container undefined"}]
    ELSE [ok |-> TRUE, prev |-> final, request |-> final, errs |-> {""}]

(* ---------------------------------------------------------------- inputs *)

\* Redeploys followed along one chain of deployments.
MaxDeploys == 2

Svc == Str(<<"s", "v", "c">>)

LongSvc == Str(Rep("a", ServiceNameLen + 1))

NewImage == Str(<<"n", "e", "w">>)

OldImage == Str(<<"o", "l", "d">>)

YamlImage == Str(<<"y", "i", "m", "g">>)

MyRev == Str(<<"m", "y", "r", "e", "v">>)

LongRev == Str(Rep("r", MaxNameLen + 1))

\* A descriptor of the shape the Cloud Run API returns and a YAML file holds.
Descriptor(metadata, template) ==
  Obj([kind |-> Str(<<"S", "e", "r", "v", "i", "c", "e">>), metadata |-> metadata,
       spec |-> Obj([template |-> template])])

Named(n) == Obj([name |-> n])

Template(metadata, containers) ==
  Obj([metadata |-> metadata, spec |-> Obj([containers |-> Arr(containers)])])

BareTemplate(containers) == Obj([spec |-> Obj([containers |-> Arr(containers)])])

\* The services fetched from the API before the first merge.
PrevA ==
  Put(Descriptor(Named(Svc),
        Template(Named(Str(<<"s", "v", "c", "-", "0", "0", "0", "5", "-", "a", "b", "c">>)),
          <<Obj([image |-> OldImage, cpu |-> Str(<<"1">>),
                 args |-> Arr(<<Str(<<"p">>), Str(<<"q">>)>>),
                 env |-> Arr(<<EnvVar(<<"O", "L", "D">>, <<"x">>)>>)])>>)),
      <<K("foo")>>, Str(<<"b", "a", "r">>))

PrevB ==
  Descriptor(Named(Svc),
    Template(Obj(NoFields),
      <<Obj([image |-> OldImage, env |-> Arr(<<EnvVar(<<"A">>, <<"1">>)>>)]),
        Obj([image |-> Str(<<"s", "i", "d", "e">>)])>>))

PrevC ==
  Descriptor(Named(Svc),
    Template(Named(MyRev),
      <<Obj([image |-> OldImage,
             env |-> Arr(<<EnvVar(<<"B">>, <<"1">>), EnvVar(<<"C">>, <<"2">>)>>)])>>))

PrevD == Descriptor(Named(Svc), BareTemplate(<<Obj([image |-> OldImage])>>))

PrevE ==
  Descriptor(Named(Svc),
    Template(Named(Str(<<"s", "v", "c", "-", "9", "9", "9", "9", "9", "-", "a", "b", "c">>)), <<Obj([image |-> OldImage])>>))

PrevF == Descriptor(Named(Svc), Template(Named(Str(<<"s", "v", "c", "-", "0", "0", "0", "1", "-", "a", "b", "c">>)), <<>>))

PrevServices == {PrevA, PrevB, PrevC, PrevD, PrevE, PrevF}

\* The trees YAML.parse returns for the files given as opts.yaml.
YamlRev ==
  Descriptor(Named(Str(<<"y", "s", "v", "c">>)),
    Template(Named(MyRev),
      <<Obj([image |-> YamlImage, args |-> Arr(<<Str(<<"r">>)>>),
             env |-> Arr(<<EnvVar(<<"A">>, <<"2">>)>>)])>>))

YamlEmptyList == Descriptor(Named(Str(<<"y", "s", "v", "c">>)), BareTemplate(<<>>))

YamlLongRev ==
  Descriptor(Named(Str(<<"y", "s", "v", "c">>)),
    Template(Named(LongRev), <<Obj([image |-> YamlImage])>>))

YamlNoMetadata ==
  Obj([kind |-> Str(<<"S", "e", "r", "v", "i", "c", "e">>),
       spec |-> Obj([template |-> BareTemplate(<<Obj([image |-> YamlImage])>>)])])

YamlNoContainers ==
  Obj([kind |-> Str(<<"S", "e", "r", "v", "i", "c", "e">>), metadata |-> Named(Str(<<"y", "s", "v", "c">>)),
       spec |-> Obj(NoFields)])

YamlNoName ==
  Descriptor(Obj(NoFields), BareTemplate(<<Obj([image |-> YamlImage])>>))

Yamls == {YamlRev, YamlEmptyList, YamlLongRev, YamlNoMetadata, YamlNoContainers,
          YamlNoName}

EnvNewY == Str(<<"N", "E", "W", "=", "y">>)

EnvInputs == {Undef, Str(<<>>), EnvNewY, Str(<<"A", "=", "2", ",", "B", "=", "3">>), Str(<<"A", "=", "1", ",", "A", "=", "2">>),
              Str(<<"A", "=", "1", ",", "B">>)}

\* The options records the first deployment is built from.
Options ==
  [image : {Undef, NewImage}, name : {Undef, Svc, LongSvc}, envVars : EnvInputs,
   yaml : {Undef}]
  \cup [image : {Undef, NewImage}, name : {Undef, Svc}, envVars : {Undef, EnvNewY},
        yaml : Yamls]

\* The options records a redeploy of the deployed service is built from.
RedeployOptions ==
  [image : {NewImage}, name : {Svc}, envVars : {Undef, EnvNewY, Str(<<"A", "=", "1", ",", "A", "=", "2">>)},
   yaml : {Undef}]
  \cup {[image |-> Undef, name |-> Undef, envVars |-> Undef, yaml |-> YamlRev]}

\* Outcomes of Math.random().toString(36): 0.4fzyo82mvyr, 0.i (0.5) and 0 (0).
RandomDraws == {<<"0", ".", "4", "f", "z", "y", "o", "8", "2", "m", "v", "y", "r">>, <<"0", ".", "i">>, <<"0">>}

NoOptions == [image |-> Undef, name |-> Undef, envVars |-> Undef, yaml |-> Undef]

(* --------------------------------------------------------- state machine *)

VARIABLES
  pc,           \* "idle", "built", "buildFailed", "deployed", "merged", "mergeFailed"
  opts,         \* the options the Service was constructed from
  request,      \* this.request
  name,         \* this.name
  prevService,  \* the object passed to merge, as the call left it
  prev0,        \* the value of that object when merge was called
  cur0,         \* the value of this.request when merge was called
  deployed,     \* the descriptor the platform holds (undefined before the first)
  deploys,      \* deployments made so far
  err           \* the error the last operation threw ("" for none)

vars == <<pc, opts, request, name, prevService, prev0, cur0, deployed, deploys, err>>

Init ==
  /\ pc = "idle"
  /\ opts = NoOptions
  /\ request = Undef
  /\ name = Undef
  /\ prevService = Undef
  /\ prev0 = Undef
  /\ cur0 = Undef
  /\ deployed = Undef
  /\ deploys = 0
  /\ err = ""

\* new Service(o): a deployment attempt starts with a fresh Service.
Construct(o) ==
  /\ pc \in {"idle", "deployed", "merged"}
  /\ deploys < MaxDeploys
  /\ LET res == ServiceConstructor(o) IN
       /\ pc' = IF res.ok THEN "built" ELSE "buildFailed"
       /\ request' = res.request
       /\ name' = res.name
       /\ err' = res.err
  /\ opts' = o
  /\ prevService' = Undef
  /\ prev0' = Undef
  /\ cur0' = Undef
  /\ UNCHANGED <<deployed, deploys>>

\* First deployment of a service: no previous descriptor, the built
\* descriptor is transmitted as it is.
DeployNew ==
  /\ pc = "built"
  /\ deployed = Undef
  /\ pc' = "deployed"
  /\ deployed' = request
  /\ deploys' = deploys + 1
  /\ UNCHANGED <<opts, request, name, prevService, prev0, cur0, err>>

\* service.merge(p) with Math.random().toString(36) = random.
Merge(p, random) ==
  /\ pc = "built"
  /\ LET res == ServiceMerge(request, name, p, random) IN
       /\ pc' = IF res.ok THEN "merged" ELSE "mergeFailed"
       /\ request' = res.request
       /\ prevService' = res.prev
       /\ err' \in res.errs
       /\ deployed' = IF res.ok THEN res.request ELSE deployed
       /\ deploys' = IF res.ok THEN deploys + 1 ELSE deploys
  /\ prev0' = p
  /\ cur0' = request
  /\ UNCHANGED <<opts, name>>

\* The service exists already: the descriptor fetched from the API is merged.
MergeFetched(p, random) ==
  /\ deployed = Undef
  /\ Merge(p, random)

\* Redeploy along the chain: the descriptor deployed last is the previous one.
MergeDeployed(random) ==
  /\ deployed # Undef
  /\ Merge(deployed, random)

Next ==
  \/ \E o \in (IF deployed = Undef THEN Options ELSE RedeployOptions) : Construct(o)
  \/ DeployNew
  \/ \E p \in PrevServices, random \in RandomDraws : MergeFetched(p, random)
  \/ \E random \in RandomDraws : MergeDeployed(random)

Spec == Init /\ [][Next]_vars

(* ---------------------------------------------------- reading descriptors *)

IsPrefix(a, b) == Len(a) <= Len(b) /\ SubSeq(b, 1, Len(a)) = a

\* The paths of every value held in the tree v (the root's is <<>>).
RECURSIVE AllPaths(_)
AllPaths(v) ==
  {<<>>} \cup
    IF IsObj(v)
    THEN UNION {{<<K(k)>> \o p : p \in AllPaths(v.f[k])} : k \in DOMAIN v.f}
    ELSE IF IsArr(v)
    THEN UNION {{<<I(i - 1)>> \o p : p \in AllPaths(v.e[i])} : i \in 1..Len(v.e)}
    ELSE {}

\* The paths of the strings (the non-record, non-sequence fields) of v.
LeafPaths(v) == {p \in AllPaths(v) : IsStr(Get(v, p))}

\* The paths of the sequences of v.
ArrPaths(v) == {p \in AllPaths(v) : IsArr(Get(v, p))}

\* The two places merge writes after the deep merge: the revision name and
\* the first container's env; p lies in one of them or holds one of them.
Rewritten(p) ==
  \/ IsPrefix(p, RevisionNamePath)
  \/ IsPrefix(p, EnvPath)
  \/ IsPrefix(EnvPath, p)

\* The env list of the first container, [] when absent.
EnvOf(d) == IF IsArr(Get(d, EnvPath)) THEN Get(d, EnvPath).e ELSE <<>>

NameOf(envVar) == Get(envVar, <<K("name")>>)

\* d without the env field of its first container.
WithoutEnv(d) ==
  IF IsObj(Get(d, Container0Path)) /\ "env" \in DOMAIN Get(d, Container0Path).f
  THEN Put(d, Container0Path,
           Obj([k \in DOMAIN Get(d, Container0Path).f \ {"env"} |->
                  Get(d, Container0Path).f[k]]))
  ELSE d

Merged == pc = "merged"

(* ----------------------------------------------------------------- C1 *)

\* C1 as stated: after a merge in which both descriptors have a first
\* container, the merged env list is the current list followed by the env
\* vars of prev, as prev was when merge was called, whose name does not
\* occur in the current list.
C1_EnvReconciled ==
  (Merged /\ IsObj(Get(prev0, Container0Path)) /\ IsObj(Get(cur0, Container0Path)))
    => LET cur  == EnvOf(cur0)
           used == {NameOf(cur[i]) : i \in 1..Len(cur)}
       IN EnvOf(request) = cur \o SelectSeq(EnvOf(prev0), LAMBDA e : NameOf(e) \notin used)

(* ----------------------------------------------------------------- C2 *)

\* C2: merge is override-preserving.  After a merge, every value prev held
\* (when merge was called) at a path where the current descriptor defines
\* nothing is in the merged descriptor unchanged, and every string field of
\* the current descriptor has the current value in the merged descriptor,
\* apart from the revision name and the first container's env.
C2_OverridePreserving ==
  Merged =>
    /\ \A p \in AllPaths(prev0) :
         (Get(cur0, p) = Undef /\ ~Rewritten(p)) => Get(request, p) = Get(prev0, p)
    /\ \A p \in LeafPaths(cur0) :
         ~Rewritten(p) => Get(request, p) = Get(cur0, p)

\* A merge that kept prev's unrelated field foo and a second container the
\* current descriptor does not have, and took the current image over prev's.
C2_Witness ==
  /\ Merged
  /\ Get(prev0, <<K("foo")>>) # Undef
  /\ Get(cur0, <<K("foo")>>) = Undef
  /\ Get(request, <<K("foo")>>) = Get(prev0, <<K("foo")>>)
  /\ Get(prev0, Container0Path \o <<K("cpu")>>) # Undef
  /\ Get(request, Container0Path \o <<K("cpu")>>) = Get(prev0, Container0Path \o <<K("cpu")>>)
  /\ Get(prev0, Container0Path \o <<K("image")>>) = OldImage
  /\ Get(request, Container0Path \o <<K("image")>>) = NewImage

(* ----------------------------------------------------------------- C3 *)

\* C3 as stated: after any merge, along any chain of builds and merges, no
\* two entries of the merged first-container env list have the same name.
C3_EnvNamesUnique ==
  Merged =>
    \A i, j \in 1..Len(EnvOf(request)) :
      NameOf(EnvOf(request)[i]) = NameOf(EnvOf(request)[j]) => i = j

(* ----------------------------------------------------------------- C4 *)

\* C4 as stated: after a merge, the merged revision name differs from the
\* revision name prev had when merge was called.
C4_RevisionNameChanges ==
  Merged => Get(request, RevisionNamePath) # Get(prev0, RevisionNamePath)

(* ----------------------------------------------------------------- C5 *)

\* Lowercase alphanumerics and hyphens only, begins with a letter, does not
\* end with a hyphen, at most 63 characters.
ValidResourceName(s) ==
  /\ Len(s) >= 1
  /\ Len(s) <= MaxNameLen
  /\ \A i \in 1..Len(s) : s[i] \in Lower \cup Digit \cup {"-"}
  /\ s[1] \in Lower
  /\ s[Len(s)] # "-"

\* C5 as stated: every revision name a successful merge writes is a valid
\* resource name.
C5_RevisionNameValid ==
  Merged => /\ IsStr(Get(request, RevisionNamePath))
            /\ ValidResourceName(Get(request, RevisionNamePath).v)

(* ----------------------------------------------------------------- C6 *)

IsInteger(s) == s # <<>> /\ \A i \in 1..Len(s) : s[i] \in Digit

\* C6 as stated: with no explicit revision name, the name written is the
\* service name truncated to 53 characters, a hyphen, the counter padded to
\* 4 digits, a hyphen and exactly 3 lowercase letters; the counter is n + 1
\* when the second-to-last segment of the previous revision name is the
\* integer n and 1 when there is no previous revision name.
C6_GeneratedNameFormat ==
  (Merged /\ ~Truthy(Get(cur0, RevisionNamePath))) =>
    LET new  == Get(request, RevisionNamePath).v
        head == Substring0(name.v, ServiceNameLen) \o <<"-">>
        prev == Get(prev0, RevisionNamePath)
        segs == Split(prev.v, "-")
    IN /\ Len(new) >= Len(head) + PadLen + 1 + NumLetters
       /\ SubSeq(new, 1, Len(head)) = head
       /\ \A i \in (Len(new) - NumLetters + 1)..Len(new) : new[i] \in Lower
       /\ new[Len(new) - NumLetters] = "-"
       /\ LET counter == SubSeq(new, Len(head) + 1, Len(new) - NumLetters - 1) IN
            /\ IsInteger(counter)
            /\ Len(counter) >= PadLen
            /\ Len(counter) > PadLen => counter[1] # "0"
            /\ ~Truthy(prev) => DigitsValue(counter) = 1
            /\ (Truthy(prev) /\ Len(segs) >= 2 /\ IsInteger(segs[Len(segs) - 1]))
                 => DigitsValue(counter) = DigitsValue(segs[Len(segs) - 1]) + 1

(* ----------------------------------------------------------------- C7 *)

Constructed == pc \in {"built", "buildFailed"}

\* What C7 says of the descriptor built from opts.
BuiltAsClaimed ==
  /\ pc = "built"
  /\ Get(request, ServiceNamePath) = opts.name
  /\ name = opts.name
  /\ Get(request, ContainersPath) =
       Arr(<<IF Truthy(opts.envVars)
             THEN Obj([image |-> opts.image, env |-> ParseEnvVars(opts.envVars.v)])
             ELSE Obj([image |-> opts.image])>>)

\* C7 as stated: every build given a non-empty name and a non-empty image
\* succeeds, with metadata.name and the name output equal to name and the
\* container list equal to the single entry {image}, its env the parsed
\* envVars when envVars is given.
C7_BuildFromNameAndImage ==
  (Constructed /\ Truthy(opts.name) /\ Truthy(opts.image)) => BuiltAsClaimed

\* C7 amended: the same, for builds whose envVars is absent, empty or has
\* an '=' in every comma-separated token.
C7_BuildFromNameImageAndValidEnv ==
  (Constructed /\ Truthy(opts.name) /\ Truthy(opts.image)
     /\ (Truthy(opts.envVars) => EnvWellFormed(opts.envVars.v)))
    => BuiltAsClaimed

\* A build from name, image, envVars and a YAML tree that holds another
\* container with another env: the image and the parsed envVars replaced them.
C7_Witness ==
  /\ pc = "built"
  /\ opts.name = Svc
  /\ opts.image = NewImage
  /\ opts.envVars = EnvNewY
  /\ Get(opts.yaml, Container0Path \o <<K("image")>>) = YamlImage
  /\ Get(request, ContainersPath) =
       Arr(<<Obj([image |-> NewImage, env |-> Arr(<<EnvVar(<<"N", "E", "W">>, <<"y">>)>>)])>>)

(* ----------------------------------------------------------------- C8 *)

\* C8 as stated: a build that does not fail produces a descriptor whose
\* spec.template.spec.containers is present with at least one element.
C8_BuiltHasContainer ==
  pc = "built" => /\ IsArr(Get(request, ContainersPath))
                  /\ Len(Get(request, ContainersPath).e) >= 1

(* ----------------------------------------------------------------- C9 *)

\* C9 as stated: when merge raises an error, the prev descriptor passed in
\* equals what it was before the call and the current descriptor is unchanged.
C9_FailedMergeChangesNothing ==
  pc = "mergeFailed" => (prevService = prev0 /\ request = cur0)

(* ---------------------------------------------------------------- C10 *)

\* C10 as stated: a sequence the current descriptor defines has, in the
\* merged descriptor, the current sequence's length and elements, nothing
\* being carried over from prev's sequence, the first container's env apart.
C10_SequencesReplaced ==
  Merged =>
    \A p \in ArrPaths(WithoutEnv(cur0)) :
      Get(WithoutEnv(request), p) = Get(WithoutEnv(cur0), p)

\* Element m of a merged sequence is prev's element q overlaid by the
\* current element c: c's strings, q's strings where c defines nothing, and
\* no other string.
Overlaid(m, c, q) ==
  /\ \A l \in LeafPaths(c) : Get(m, l) = Get(c, l)
  /\ \A l \in LeafPaths(q) : Get(c, l) = Undef => Get(m, l) = Get(q, l)
  /\ LeafPaths(m) \subseteq LeafPaths(c) \cup LeafPaths(q)

\* C10 amended: a sequence the current descriptor defines is merged with
\* prev's sequence index by index: the merged sequence is as long as the
\* longer of the two, its elements at the current sequence's indices are
\* prev's elements overlaid by the current ones, and prev's elements beyond
\* the current sequence's length are carried over unchanged; the first
\* container's env apart.
C10_SequencesMergedByIndex ==
  Merged =>
    \A p \in ArrPaths(WithoutEnv(cur0)) :
      LET m == Get(WithoutEnv(request), p)
          c == Get(WithoutEnv(cur0), p).e
          q == IF IsArr(Get(WithoutEnv(prev0), p))
               THEN Get(WithoutEnv(prev0), p).e ELSE <<>>
      IN /\ IsArr(m)
         /\ Len(m.e) = Max(Len(c), Len(q))
         /\ \A i \in 1..Len(m.e) :
              IF i <= Len(c)
              THEN Overlaid(m.e[i], c[i], IF i <= Len(q) THEN q[i] ELSE Undef)
              ELSE m.e[i] = q[i]

\* A merge of a one-container descriptor into a prev with two containers:
\* the merged list has prev's second container, and its first container
\* holds the current image.
C10_Witness ==
  /\ Merged
  /\ Len(Get(cur0, ContainersPath).e) = 1
  /\ Len(Get(prev0, ContainersPath).e) = 2
  /\ Len(Get(request, ContainersPath).e) = 2
  /\ Get(request, ContainersPath).e[2] = Get(prev0, ContainersPath).e[2]
  /\ Get(request, Container0Path \o <<K("image")>>) = Get(cur0, Container0Path \o <<K("image")>>)
  /\ Get(prev0, Container0Path \o <<K("image")>>) # Get(cur0, Container0Path \o <<K("image")>>)

====
